---- MODULE Spec2Model ----
(***************************************************************************)
(* Model of code/tfsdec_main.py: loading and validating the stitched       *)
(* signal, extracting lag-shifted windows per fold split, building the     *)
(* vocabulary, the WeightAverager callback, per-fold model assembly and    *)
(* prediction averaging, and the aggregation of the fold results.          *)
(***************************************************************************)
EXTENDS Integers, Sequences, FiniteSets, TLC

VARIABLES
    \* load_pickles / extract_signal_from_fold
    ld_pc,          \* "start", "loaded", "raised", "idle"
    n_rows,         \* signal_d['binned_signal'].shape[0]
    n_cols,         \* signal_d['binned_signal'].shape[1]
    n_electrodes,   \* len(signal_d['electrodes'])
    raw_stitch,     \* signal_d['bin_stitch_index'] as pickled
    stitch_index,   \* the list returned by load_pickles
    lag,            \* args.lag
    half_window,    \* args.half_window
    n_calls,        \* number of extract_signal_from_fold calls made
    examples,       \* argument of the last extract_signal_from_fold call
    x,              \* windows of the last call, each a sequence of row numbers
    w,              \* words of the last call
    kept,           \* positions (1-based) in examples of the events appended
    ex_error,       \* "none" or the exception the last call raised
    \* WeightAverager and the training loop that drives it
    wa_pc,          \* "training", "ended", "idle"
    n_weight_avg,   \* the epoch_count argument of WeightAverager.__init__
    patience,       \* self.patience
    epoch_count,    \* self.epoch_count
    weights,        \* self.weights, oldest first
    model_weights,  \* self.model.get_weights(), a rational <<num, den>>
    n_epochs,       \* epochs run so far
    n_averaged,     \* p + 1 as printed by on_train_end, 0 if nothing averaged
    \* the fold loop of __main__: obtaining the fold's models and evaluating
    fd_pc,          \* "obtain", "evaluate", "done", "raised", "idle"
    args_ensemble,  \* args.ensemble
    args_fine_epochs,   \* args.fine_epochs
    args_patience,  \* args.patience
    args_n_weight_avg,  \* args.n_weight_avg
    fold,           \* i of `for i in range(5)`
    stopper,        \* the global `stopper`: "unbound" or "EarlyStopping"
    callbacks,      \* the list `callbacks` built before fit
    fit_callbacks,  \* the callbacks argument of the last model2.fit call
    model2,         \* the global `model2`: <<>> while unbound, else <<model>>
    models,         \* the list `models` of the current fold
    loaded_model,   \* the flag loaded_model of the current fold
    n_load_problems,    \* 'Problem loading model' lines printed in this fold
    handed,         \* predictions passed to the evaluator in this fold, <<>> if none
    n_fold_results, \* len(fold_results)
    fd_error,       \* "none" or the exception that ended the run
    \* determine indexing (the vocabulary of a fold)
    vc_pc,          \* "index", "idle"
    w_train,        \* the words returned for the train split
    word2index,     \* word -> index
    index2word,     \* index -> word
    y_train,        \* [word2index[w] for w in w_train]
    n_classes,      \* np.unique(y_train).size
    prev_word2index,    \* word2index of the fold before, <<>> in the first
    n_indexed,      \* folds whose indexing has been determined
    \* save results
    rs_pc,          \* "folds", "saved", "idle"
    fold_results,   \* the list fold_results
    summary         \* the dict `results` of lines 556-560, <<>> before

exvars == <<ld_pc, n_rows, n_cols, n_electrodes, raw_stitch, stitch_index,
            lag, half_window, n_calls, examples, x, w, kept, ex_error>>

wavars == <<wa_pc, n_weight_avg, patience, epoch_count, weights,
            model_weights, n_epochs, n_averaged>>

fdvars == <<fd_pc, args_ensemble, args_fine_epochs, args_patience,
            args_n_weight_avg, fold, stopper, callbacks, fit_callbacks, model2,
            models, loaded_model, n_load_problems, handed, n_fold_results,
            fd_error>>

vcvars == <<vc_pc, w_train, word2index, index2word, y_train, n_classes,
            prev_word2index, n_indexed>>

rsvars == <<rs_pc, fold_results, summary>>

vars == <<exvars, wavars, fdvars, vcvars, rsvars>>

----------------------------------------------------------------------------
(* Bounds *)
MaxRows == 4
MaxBoundaries == 3
MaxHalfWindow == 2
MaxEvents == 2
MaxCalls == 2
MaxPatience == 2
MaxWeightAvg == 3
MaxEpochs == 4
MaxWeight == 2
MaxFiles == 3
MaxPrediction == 2
MaxWordLen == 2
MaxLetter == 2
MaxTrainWords == 3
MaxIndexed == 2
MaxMetric == 1
MaxTableRows == 1

(* Program constants *)
NumFolds == 5

(* Program constants *)
BinFactor == 32
NumElectrodes == 1

Words == {"a", "b"}
Lags == {0 - BinFactor, 0 - 1, 0, BinFactor}
\* one onset per bin 0..MaxRows+1, at varying sample offsets inside the bin
Onsets == {b * BinFactor + ((b * 7) % BinFactor) : b \in 0..(MaxRows + 1)}
Events == [onset : Onsets, word : Words]

RECURSIVE SeqsUpTo(_, _)
SeqsUpTo(S, n) ==
    IF n = 0 THEN {<<>>}
    ELSE LET shorter == SeqsUpTo(S, n - 1)
         IN shorter \cup {Append(s, e) : s \in {t \in shorter : Len(t) = n - 1}, e \in S}

RawLists == {s \in SeqsUpTo(0..MaxRows, MaxBoundaries) : Len(s) >= 1}
StrictlyIncreasing(s) == \A i \in 1..(Len(s) - 1) : s[i] < s[i + 1]
\* boundary lists as the preprocessing writes them: increasing segment ends
SegmentEndLists == {s \in RawLists : s[1] > 0 /\ StrictlyIncreasing(s)}
ExampleLists == SeqsUpTo(Events, MaxEvents)

----------------------------------------------------------------------------
(* Python helpers *)

\* numpy basic slicing a[l:r] on an axis of length n: the row numbers selected
PySlice(l, r, n) ==
    LET clamp(i) == IF i < 0 THEN (IF i + n < 0 THEN 0 ELSE i + n)
                    ELSE (IF i > n THEN n ELSE i)
        lo == clamp(l)
        hi == clamp(r)
    IN IF hi <= lo THEN <<>> ELSE [k \in 1..(hi - lo) |-> lo + k - 1]

\* 0-based positions j of S with S[j] < bin_index: (np.array(S) < b).nonzero()[0]
NonzeroLess(S, bin_index) == {j \in 0..(Len(S) - 1) : S[j + 1] < bin_index}

SetMax(A) == CHOOSE m \in A : \A a \in A : a <= m

Min(a, b) == IF a <= b THEN a ELSE b
Abs(a) == IF a < 0 THEN 0 - a ELSE a

RECURSIVE GCD(_, _)
GCD(a, b) == IF b = 0 THEN a ELSE GCD(b, a % b)

\* rationals <<num, den>> in lowest terms with den > 0
Rat(n, d) ==
    LET g == GCD(Abs(n), Abs(d))
        sgn == IF d < 0 THEN 0 - 1 ELSE 1
    IN <<sgn * (n \div g), sgn * (d \div g)>>
RatInt(i) == <<i, 1>>
RatAdd(a, b) == Rat(a[1] * b[2] + b[1] * a[2], a[2] * b[2])
RatMul(a, b) == Rat(a[1] * b[1], a[2] * b[2])
RatDiv(a, b) == Rat(a[1] * b[2], a[2] * b[1])

----------------------------------------------------------------------------
(* Parts of the program that a specification does not exercise stay idle *)

IdleExtract ==
    /\ ld_pc = "idle"
    /\ n_rows = 0
    /\ n_cols = 0
    /\ n_electrodes = 0
    /\ raw_stitch = <<>>
    /\ stitch_index = <<>>
    /\ lag = 0
    /\ half_window = 0
    /\ n_calls = 0
    /\ examples = <<>>
    /\ x = <<>>
    /\ w = <<>>
    /\ kept = <<>>
    /\ ex_error = "none"

IdleAverager ==
    /\ wa_pc = "idle"
    /\ n_weight_avg = 0
    /\ patience = 0
    /\ epoch_count = 0
    /\ weights = <<>>
    /\ model_weights = <<0, 1>>
    /\ n_epochs = 0
    /\ n_averaged = 0

IdleFold ==
    /\ fd_pc = "idle"
    /\ args_ensemble = FALSE
    /\ args_fine_epochs = 0
    /\ args_patience = 0
    /\ args_n_weight_avg = 0
    /\ fold = 0
    /\ stopper = "unbound"
    /\ callbacks = <<>>
    /\ fit_callbacks = <<>>
    /\ model2 = <<>>
    /\ models = <<>>
    /\ loaded_model = FALSE
    /\ n_load_problems = 0
    /\ handed = <<>>
    /\ n_fold_results = 0
    /\ fd_error = "none"

IdleVocab ==
    /\ vc_pc = "idle"
    /\ w_train = <<>>
    /\ word2index = <<>>
    /\ index2word = <<>>
    /\ y_train = <<>>
    /\ n_classes = 0
    /\ prev_word2index = <<>>
    /\ n_indexed = 0

IdleResults ==
    /\ rs_pc = "idle"
    /\ fold_results = <<>>
    /\ summary = <<>>

----------------------------------------------------------------------------
(* extract_signal_from_fold *)

LagInBinDim(lg) == lg \div BinFactor
BinIndex(label) == label.onset \div BinFactor
LeftEdge(label, lg, hw) == BinIndex(label) + LagInBinDim(lg) - hw
RightEdge(label, lg, hw) == BinIndex(label) + LagInBinDim(lg) + hw

BinRankOf(label, S) == SetMax(NonzeroLess(S, BinIndex(label)))

\* the loop body with the left-edge test left out
LabelOutcomeNoStartTest(label, S, lg, hw) ==
    IF NonzeroLess(S, BinIndex(label)) = {} THEN "IndexError"
    ELSE LET bin_rank == BinRankOf(label, S)
         IN IF bin_rank + 1 > Len(S) - 1 THEN "IndexError"
            ELSE LET bin_stop == S[bin_rank + 2]
                 IN IF RightEdge(label, lg, hw) > bin_stop
                    THEN "skip" ELSE "append"

\* the loop body with the right-edge test left out
LabelOutcomeNoStopTest(label, S, lg, hw) ==
    IF NonzeroLess(S, BinIndex(label)) = {} THEN "IndexError"
    ELSE LET bin_rank == BinRankOf(label, S)
         IN IF bin_rank + 1 > Len(S) - 1 THEN "IndexError"
            ELSE LET bin_start == S[bin_rank + 1]
                 IN IF LeftEdge(label, lg, hw) < bin_start
                    THEN "skip" ELSE "append"

\* the loop body's outcome for one label: "IndexError", "skip" or "append"
LabelOutcome(label, S, lg, hw) ==
    IF NonzeroLess(S, BinIndex(label)) = {} THEN "IndexError"
    ELSE LET bin_rank == BinRankOf(label, S)
         IN IF bin_rank + 1 > Len(S) - 1 THEN "IndexError"
            ELSE LET bin_start == S[bin_rank + 1]
                     bin_stop == S[bin_rank + 2]
                 IN IF (LeftEdge(label, lg, hw) < bin_start)
                        \/ (RightEdge(label, lg, hw) > bin_stop)
                    THEN "skip" ELSE "append"

RECURSIVE ExtractLoop(_, _, _, _, _, _, _, _, _)
ExtractLoop(exs, pos, S, lg, hw, rows, ax, aw, ak) ==
    IF pos > Len(exs)
    THEN IF ax = <<>>
         THEN [error |-> "ValueError", x |-> ax, w |-> aw, kept |-> ak]
         ELSE [error |-> "none", x |-> ax, w |-> aw, kept |-> ak]
    ELSE LET label == exs[pos]
             oc == LabelOutcome(label, S, lg, hw)
         IN IF oc = "IndexError"
            THEN [error |-> "IndexError", x |-> ax, w |-> aw, kept |-> ak]
            ELSE IF oc = "skip"
            THEN ExtractLoop(exs, pos + 1, S, lg, hw, rows, ax, aw, ak)
            ELSE ExtractLoop(exs, pos + 1, S, lg, hw, rows,
                     Append(ax, PySlice(LeftEdge(label, lg, hw),
                                        RightEdge(label, lg, hw), rows)),
                     Append(aw, label.word),
                     Append(ak, pos))

extract_signal_from_fold(exs, S, lg, hw, rows) ==
    ExtractLoop(exs, 1, S, lg, hw, rows, <<>>, <<>>, <<>>)

----------------------------------------------------------------------------
(* load_pickles *)

InitExtract ==
    /\ ld_pc = "start"
    /\ n_rows = MaxRows
    /\ n_cols = NumElectrodes
    /\ n_electrodes \in {NumElectrodes, NumElectrodes + 1}
    /\ raw_stitch \in SegmentEndLists
    /\ stitch_index = <<>>
    /\ lag \in Lags
    /\ half_window \in 0..MaxHalfWindow
    /\ n_calls = 0
    /\ examples \in ExampleLists
    /\ x = <<>>
    /\ w = <<>>
    /\ kept = <<>>
    /\ ex_error = "none"
    /\ IdleAverager
    /\ IdleFold
    /\ IdleVocab
    /\ IdleResults

load_pickles ==
    /\ ld_pc = "start"
    /\ IF n_rows # raw_stitch[Len(raw_stitch)] \/ n_cols # n_electrodes
       THEN /\ ld_pc' = "raised"
            /\ stitch_index' = stitch_index
       ELSE /\ ld_pc' = "loaded"
            /\ stitch_index' = <<0>> \o raw_stitch
    /\ UNCHANGED <<n_rows, n_cols, n_electrodes, raw_stitch, lag, half_window,
                   n_calls, examples, x, w, kept, ex_error>>
    /\ UNCHANGED <<wavars, fdvars, vcvars, rsvars>>

ExtractFold ==
    /\ ld_pc = "loaded"
    /\ n_calls < MaxCalls
    /\ LET r == extract_signal_from_fold(examples, stitch_index, lag,
                                          half_window, n_rows)
       IN /\ x' = r.x
          /\ w' = r.w
          /\ kept' = r.kept
          /\ ex_error' = r.error
          /\ ld_pc' = IF r.error = "none" THEN "loaded" ELSE "raised"
    /\ n_calls' = n_calls + 1
    /\ UNCHANGED <<n_rows, n_cols, n_electrodes, raw_stitch, stitch_index,
                   lag, half_window, examples>>
    /\ UNCHANGED <<wavars, fdvars, vcvars, rsvars>>

NextExtract == load_pickles \/ ExtractFold

SpecExtract == InitExtract /\ [][NextExtract]_vars

\* the same program started on any boundary list, well formed or not
InitLoad ==
    /\ ld_pc = "start"
    /\ n_rows = MaxRows
    /\ n_cols = NumElectrodes
    /\ n_electrodes \in {NumElectrodes, NumElectrodes + 1}
    /\ raw_stitch \in RawLists
    /\ stitch_index = <<>>
    /\ lag = 0
    /\ half_window = 1
    /\ n_calls = 0
    /\ examples \in SeqsUpTo(Events, 1)
    /\ x = <<>>
    /\ w = <<>>
    /\ kept = <<>>
    /\ ex_error = "none"
    /\ IdleAverager
    /\ IdleFold
    /\ IdleVocab
    /\ IdleResults

SpecLoad == InitLoad /\ [][NextExtract]_vars

----------------------------------------------------------------------------
(* WeightAverager *)

InitialWeights == RatInt(0)

\* WeightAverager.__init__: the state right after construction
InitAverager ==
    /\ IdleExtract
    /\ IdleFold
    /\ IdleVocab
    /\ IdleResults
    /\ wa_pc = "training"
    /\ n_weight_avg \in 1..MaxWeightAvg
    /\ patience \in 0..MaxPatience
    /\ epoch_count = Min(n_weight_avg, 2 * patience)
    /\ weights = <<>>
    /\ model_weights = InitialWeights
    /\ n_epochs = 0
    /\ n_averaged = 0

\* len(self.weights) == self.patience + self.epoch_count / 2, with true
\* division: both sides doubled
AtCap(ws, pat, ec) == 2 * Len(ws) = 2 * pat + ec

EvictTest(ws, pat, ec) == Len(ws) # 0 /\ AtCap(ws, pat, ec)

\* one epoch of fit (the model's weights become v) followed by on_epoch_end
on_epoch_end ==
    /\ wa_pc = "training"
    /\ n_epochs < MaxEpochs
    /\ \E v \in 0..MaxWeight :
         /\ model_weights' = RatInt(v)
         /\ weights' = Append(IF EvictTest(weights, patience, epoch_count)
                              THEN Tail(weights) ELSE weights,
                              RatInt(v))
    /\ n_epochs' = n_epochs + 1
    /\ UNCHANGED <<wa_pc, n_weight_avg, patience, epoch_count, n_averaged>>
    /\ UNCHANGED <<exvars, fdvars, vcvars, rsvars>>

\* the loop of on_train_end from 0-based position p with running average acc:
\* the average and the last value of p
RECURSIVE AverageLoop(_, _, _, _)
AverageLoop(ws, p, acc, ec) ==
    LET nacc == RatDiv(RatAdd(RatMul(acc, RatInt(p)), ws[p + 1]), RatInt(p + 1))
    IN IF p >= ec \/ p + 1 >= Len(ws)
       THEN [w |-> nacc, p |-> p]
       ELSE AverageLoop(ws, p + 1, nacc, ec)

on_train_end ==
    /\ wa_pc = "training"
    /\ wa_pc' = "ended"
    /\ IF weights # <<>>
       THEN LET r == AverageLoop(weights, 0, RatInt(0), epoch_count)
            IN /\ model_weights' = r.w
               /\ n_averaged' = r.p + 1
       ELSE UNCHANGED <<model_weights, n_averaged>>
    /\ UNCHANGED <<n_weight_avg, patience, epoch_count, weights, n_epochs>>
    /\ UNCHANGED <<exvars, fdvars, vcvars, rsvars>>

NextAverager == on_epoch_end \/ on_train_end

SpecAverager == InitAverager /\ [][NextAverager]_vars

----------------------------------------------------------------------------
(* The fold loop: classification training / model loading and evaluation.   *)
(* A model is represented by the prediction it makes for one cell           *)
(* (example, class) of the test split.                                      *)

Models == 0..MaxPrediction
\* a persisted file either loads to a model or load_model raises on it
FileContents == {[loads |-> TRUE, model |-> m] : m \in Models}
                    \cup {[loads |-> FALSE, model |-> 0]}
GlobResults == SeqsUpTo(FileContents, MaxFiles)

InitFold ==
    /\ IdleExtract
    /\ IdleAverager
    /\ IdleVocab
    /\ IdleResults
    /\ fd_pc = "obtain"
    /\ args_ensemble \in BOOLEAN
    /\ args_fine_epochs \in {0, 1}
    /\ args_patience \in {0, 1}
    /\ args_n_weight_avg \in {0, 1}
    /\ fold = 0
    /\ stopper = "unbound"
    /\ callbacks = <<>>
    /\ fit_callbacks = <<>>
    /\ model2 = <<>>
    /\ models = <<>>
    /\ loaded_model = FALSE
    /\ n_load_problems = 0
    /\ handed = <<>>
    /\ n_fold_results = 0
    /\ fd_error = "none"

Raise(err) ==
    /\ fd_pc' = "raised"
    /\ fd_error' = err

\* np.average(predictions, axis=0) for one cell
RECURSIVE SeqSum(_)
SeqSum(ps) == IF ps = <<>> THEN 0 ELSE ps[1] + SeqSum(Tail(ps))

NpAverage(ps) == Rat(SeqSum(ps), Len(ps))

\* model.predict(x_test) for one cell
Predict(m) == RatInt(m)

\* train branch, lines 392-440
TrainModel ==
    /\ fd_pc = "obtain"
    /\ args_fine_epochs > 0 /\ ~args_ensemble
    /\ LET stopper1 == IF args_patience > 0 THEN "EarlyStopping" ELSE stopper
           callbacks1 == (IF args_patience > 0 THEN <<"EarlyStopping">> ELSE <<>>)
                         \o (IF args_n_weight_avg > 0 THEN <<"WeightAverager">>
                                                      ELSE <<>>)
       IN /\ stopper' = stopper1
          /\ callbacks' = callbacks1
          /\ IF stopper1 = "unbound"
             THEN /\ Raise("NameError")
                  /\ models' = <<>>
                  /\ UNCHANGED <<fit_callbacks, model2>>
             ELSE /\ fit_callbacks' = <<stopper1>>
                  /\ \E m \in Models :
                       /\ model2' = <<m>>
                       /\ models' = <<m>>
                  /\ fd_pc' = "evaluate"
                  /\ UNCHANGED fd_error
    /\ loaded_model' = FALSE
    /\ n_load_problems' = 0
    /\ handed' = <<>>
    /\ UNCHANGED <<args_ensemble, args_fine_epochs, args_patience,
                   args_n_weight_avg, fold, n_fold_results>>
    /\ UNCHANGED <<exvars, wavars, vcvars, rsvars>>

Loads(f) == f.loads

\* the models appended by the loop of lines 443-449
RECURSIVE LoadAll(_)
LoadAll(files) ==
    IF files = <<>> THEN <<>>
    ELSE (IF Loads(files[1]) THEN <<files[1].model>> ELSE <<>>)
         \o LoadAll(Tail(files))

\* ensemble branch, lines 441-451
LoadEnsemble ==
    /\ fd_pc = "obtain"
    /\ ~(args_fine_epochs > 0 /\ ~args_ensemble)
    /\ args_ensemble
    /\ \E files \in GlobResults :
         /\ models' = LoadAll(files)
         /\ n_load_problems' = Len(files) - Len(LoadAll(files))
         /\ IF LoadAll(files) = <<>>
            THEN Raise("AssertionError")
            ELSE fd_pc' = "evaluate" /\ UNCHANGED fd_error
    /\ loaded_model' = FALSE
    /\ handed' = <<>>
    /\ UNCHANGED <<args_ensemble, args_fine_epochs, args_patience,
                   args_n_weight_avg, fold, stopper, callbacks, fit_callbacks,
                   model2, n_fold_results>>
    /\ UNCHANGED <<exvars, wavars, vcvars, rsvars>>

\* else branch, lines 452-461
ReuseModel ==
    /\ fd_pc = "obtain"
    /\ ~(args_fine_epochs > 0 /\ ~args_ensemble)
    /\ ~args_ensemble
    /\ \/ \E m \in Models :
            /\ loaded_model' = TRUE
            /\ model2' = <<m>>
            /\ models' = <<m>>
            /\ fd_pc' = "evaluate"
            /\ UNCHANGED fd_error
       \/ /\ Raise("AssertionError")
          /\ models' = <<>>
          /\ UNCHANGED <<loaded_model, model2>>
    /\ n_load_problems' = 0
    /\ handed' = <<>>
    /\ UNCHANGED <<args_ensemble, args_fine_epochs, args_patience,
                   args_n_weight_avg, fold, stopper, callbacks, fit_callbacks,
                   n_fold_results>>
    /\ UNCHANGED <<exvars, wavars, vcvars, rsvars>>

\* the predictions of lines 474-489; NameError when model2 is read unbound
Predictions(ms, m2) ==
    IF Len(ms) = 1
    THEN IF m2 = <<>> THEN [error |-> "NameError", value |-> <<>>]
         ELSE [error |-> "none", value |-> Predict(m2[1])]
    ELSE [error |-> "none", value |-> NpAverage(ms)]

\* classification evaluation and the end of the loop body, lines 467-520
Evaluate ==
    /\ fd_pc = "evaluate"
    /\ IF args_fine_epochs > 0 \/ loaded_model \/ args_ensemble
       THEN LET predictions == Predictions(models, model2)
            IN IF predictions.error # "none"
               THEN /\ Raise(predictions.error)
                    /\ UNCHANGED <<handed, n_fold_results, fold>>
               ELSE /\ handed' = predictions.value
                    /\ n_fold_results' = n_fold_results + 1
                    /\ fold' = fold + 1
                    /\ fd_pc' = IF fold + 1 < NumFolds THEN "obtain" ELSE "done"
                    /\ UNCHANGED fd_error
       ELSE /\ n_fold_results' = n_fold_results + 1
            /\ fold' = fold + 1
            /\ fd_pc' = IF fold + 1 < NumFolds THEN "obtain" ELSE "done"
            /\ UNCHANGED <<handed, fd_error>>
    /\ UNCHANGED <<args_ensemble, args_fine_epochs, args_patience,
                   args_n_weight_avg, stopper, callbacks, fit_callbacks, model2,
                   models, loaded_model, n_load_problems>>
    /\ UNCHANGED <<exvars, wavars, vcvars, rsvars>>

NextFold == TrainModel \/ LoadEnsemble \/ ReuseModel \/ Evaluate

SpecFold == InitFold /\ [][NextFold]_vars

----------------------------------------------------------------------------
(* Determine indexing, lines 349-360.  A word is a non-empty sequence of     *)
(* letters 1..MaxLetter, compared as Python compares strings.               *)

VocabWords == {s \in SeqsUpTo(1..MaxLetter, MaxWordLen) : Len(s) >= 1}
TrainWordLists == {s \in SeqsUpTo(VocabWords, MaxTrainWords) : Len(s) >= 1}

\* a < b for strings
RECURSIVE StrLess(_, _)
StrLess(a, b) ==
    IF b = <<>> THEN FALSE
    ELSE IF a = <<>> THEN TRUE
    ELSE IF a[1] # b[1] THEN a[1] < b[1]
    ELSE StrLess(Tail(a), Tail(b))

SeqToSet(s) == {s[i] : i \in 1..Len(s)}

\* the orders in which iterating a set may yield its elements
IterationOrders(S) ==
    {s \in [1..Cardinality(S) -> S] : \A i, j \in 1..Cardinality(S) :
                                         s[i] = s[j] => i = j}

\* insertion that ignores the order of the elements
InsertAtEnd(sorted, e) == Append(sorted, e)

\* e put into its place in a sorted list
RECURSIVE Insert(_, _)
Insert(sorted, e) ==
    IF sorted = <<>> THEN <<e>>
    ELSE IF StrLess(e, sorted[1]) THEN <<e>> \o sorted
    ELSE <<sorted[1]>> \o Insert(Tail(sorted), e)

\* sorted(iterable)
RECURSIVE Sorted(_)
Sorted(s) ==
    IF s = <<>> THEN <<>>
    ELSE Insert(Sorted(SubSeq(s, 1, Len(s) - 1)), s[Len(s)])

\* {w: j for j, w in enumerate(ws)}; a later duplicate overwrites
Enumerate(ws) ==
    [wd \in SeqToSet(ws) |->
        (CHOOSE j \in 1..Len(ws) :
            ws[j] = wd /\ \A k \in 1..Len(ws) : ws[k] = wd => k <= j) - 1]

\* {j: word for word, j in word2index.items()}
Invert(w2i) ==
    [j \in {w2i[wd] : wd \in DOMAIN w2i} |->
        CHOOSE wd \in DOMAIN w2i : w2i[wd] = j]

InitVocab ==
    /\ IdleExtract
    /\ IdleAverager
    /\ IdleFold
    /\ IdleResults
    /\ vc_pc = "index"
    /\ w_train \in TrainWordLists
    /\ word2index = <<>>
    /\ index2word = <<>>
    /\ y_train = <<>>
    /\ n_classes = 0
    /\ prev_word2index = <<>>
    /\ n_indexed = 0

DetermineIndexing ==
    /\ vc_pc = "index"
    /\ n_indexed < MaxIndexed
    /\ \E order \in IterationOrders(SeqToSet(w_train)) :
         LET w2i == Enumerate(Sorted(order))
             y == [i \in 1..Len(w_train) |-> w2i[w_train[i]]]
         IN /\ word2index' = w2i
            /\ index2word' = Invert(w2i)
            /\ y_train' = y
            /\ n_classes' = Cardinality(SeqToSet(y))
    /\ prev_word2index' = word2index
    /\ n_indexed' = n_indexed + 1
    /\ UNCHANGED <<vc_pc, w_train>>
    /\ UNCHANGED <<exvars, wavars, fdvars, rsvars>>

NextVocab == DetermineIndexing

SpecVocab == InitVocab /\ [][NextVocab]_vars

----------------------------------------------------------------------------
(* Save results, lines 555-560.  A metric value is tagged as a DataFrame    *)
(* (a sequence of rows) or a scalar.                                        *)

MetricKeys == {"n_test", "test_topk_df"}
Scalars == 0..MaxMetric
Tables == SeqsUpTo(0..1, MaxTableRows)

FoldResults ==
    {[k \in MetricKeys |->
        IF k = "n_test" THEN [df |-> FALSE, scalar |-> sc, rows |-> <<>>]
        ELSE [df |-> TRUE, scalar |-> 0, rows |-> tb]] :
     sc \in Scalars, tb \in Tables}

InitResults ==
    /\ IdleExtract
    /\ IdleAverager
    /\ IdleFold
    /\ IdleVocab
    /\ rs_pc = "folds"
    /\ fold_results = <<>>
    /\ summary = <<>>

\* one pass of the fold loop ends with fold_results.append(results)
AppendFoldResult ==
    /\ rs_pc = "folds"
    /\ Len(fold_results) < NumFolds
    /\ \E results \in FoldResults : fold_results' = Append(fold_results, results)
    /\ UNCHANGED <<rs_pc, summary>>
    /\ UNCHANGED <<exvars, wavars, fdvars, vcvars>>

\* np.mean with the divisor one too small
NpMeanOffByOne(values) ==
    Rat(SeqSum([i \in 1..Len(values) |-> values[i].scalar]), Len(values) - 1)

\* np.mean(values) for scalar values
NpMean(values) ==
    Rat(SeqSum([i \in 1..Len(values) |-> values[i].scalar]), Len(values))

\* pd.concat(values): the rows of the frames one after another
RECURSIVE PdConcat(_)
PdConcat(values) ==
    IF values = <<>> THEN <<>> ELSE values[1].rows \o PdConcat(Tail(values))

IsDataFrame(v) == v.df

\* avg_<metric>
AvgKey(metric) == <<"avg_", metric>>

Aggregate(frs) ==
    [key \in {AvgKey(metric) : metric \in DOMAIN frs[1]} |->
        LET values == [i \in 1..Len(frs) |-> frs[i][key[2]]]
        IN IF IsDataFrame(values[1])
           THEN [df |-> TRUE, mean |-> <<0, 1>>, rows |-> PdConcat(values)]
           ELSE [df |-> FALSE, mean |-> NpMean(values), rows |-> <<>>]]

SaveResults ==
    /\ rs_pc = "folds"
    /\ Len(fold_results) = NumFolds
    /\ summary' = Aggregate(fold_results)
    /\ rs_pc' = "saved"
    /\ UNCHANGED fold_results
    /\ UNCHANGED <<exvars, wavars, fdvars, vcvars>>

NextResults == AppendFoldResult \/ SaveResults

SpecResults == InitResults /\ [][NextResults]_vars

----------------------------------------------------------------------------
(* Properties of load_pickles and extract_signal_from_fold *)

ValidStitchIndex(S, rows) ==
    /\ Len(S) >= 2
    /\ S[1] = 0
    /\ S[Len(S)] = rows
    /\ StrictlyIncreasing(S)

ExtractCalled == n_calls > 0

\* the window of label lies inside the segment whose start is the rightmost
\* boundary <= the label's bin index
WithinOwnSegment(label, S, lg, hw) ==
    \E j \in 1..(Len(S) - 1) :
        /\ S[j] <= BinIndex(label)
        /\ BinIndex(label) < S[j + 1]
        /\ S[j] <= LeftEdge(label, lg, hw)
        /\ RightEdge(label, lg, hw) <= S[j + 1]

InKept(k) == \E i \in 1..Len(kept) : kept[i] = k

\* C1: after a call of extract_signal_from_fold on a valid stitch index, an
\* event has a window in the output if and only if its lag-shifted range
\* lies inside the segment that starts at the rightmost boundary <= its bin
\* index.
\* (Stated for events whose bin index is a row of the signal.)
C1_WindowIffWithinOwnSegment ==
    (ExtractCalled /\ ValidStitchIndex(stitch_index, n_rows)) =>
        \A k \in 1..Len(examples) :
            BinIndex(examples[k]) < n_rows =>
                (InKept(k) <=> WithinOwnSegment(examples[k], stitch_index,
                                                lag, half_window))

\* C2: every emitted window has exactly 2*half_window rows, the rows
\* left_edge..right_edge-1 of the signal, lying between two consecutive stitch
\* boundaries, and the k-th word is the word of the event of the k-th window,
\* windows being in event order.
C2_WindowsWholeAndAligned ==
    (ExtractCalled /\ ValidStitchIndex(stitch_index, n_rows)) =>
        /\ Len(w) = Len(x)
        /\ Len(kept) = Len(x)
        /\ StrictlyIncreasing(kept)
        /\ \A k \in 1..Len(x) :
              LET label == examples[kept[k]]
                  l == LeftEdge(label, lag, half_window)
                  r == RightEdge(label, lag, half_window)
              IN /\ Len(x[k]) = 2 * half_window
                 /\ \A i \in 1..Len(x[k]) : x[k][i] = l + i - 1
                 /\ \E j \in 1..(Len(stitch_index) - 1) :
                        stitch_index[j] <= l /\ r <= stitch_index[j + 1]
                 /\ w[k] = label.word

C2_Witness ==
    /\ ExtractCalled
    /\ ex_error = "none"
    /\ Len(x) = 2
    /\ half_window >= 1
    /\ lag # 0
    /\ Len(stitch_index) >= 3
    /\ examples[1].word # examples[2].word

\* C3: a call of extract_signal_from_fold on a valid stitch index never
\* raises, whatever the events of the split are (stated for a split with at
\* least one event, all of them at rows of the signal).
C3_ExtractNeverRaises ==
    (/\ ExtractCalled
     /\ ValidStitchIndex(stitch_index, n_rows)
     /\ examples # <<>>
     /\ \A k \in 1..Len(examples) : BinIndex(examples[k]) < n_rows)
        => ex_error = "none"

\* C4: once load_pickles has returned, the stitch index is strictly
\* increasing, starts with 0 and ends with the number of signal rows.
C4_StitchIndexWellFormed ==
    (ld_pc = "loaded" \/ ExtractCalled) =>
        /\ StrictlyIncreasing(stitch_index)
        /\ stitch_index[1] = 0
        /\ stitch_index[Len(stitch_index)] = n_rows

----------------------------------------------------------------------------
(* Properties of WeightAverager *)

RECURSIVE SumFirst(_, _)
SumFirst(ws, n) == IF n = 0 THEN RatInt(0) ELSE RatAdd(SumFirst(ws, n - 1), ws[n])

MeanFirst(ws, n) == RatDiv(SumFirst(ws, n), RatInt(n))

\* C5: the averager never holds more than patience + epoch_count/2 snapshots
\* (epoch_count as passed to the constructor; both sides doubled; stated for
\* patience >= 1).
C5_SnapshotsWithinCap ==
    (wa_pc \in {"training", "ended"} /\ patience >= 1) =>
        2 * Len(weights) <= 2 * patience + n_weight_avg

\* C6: after on_train_end the model's parameters are the mean of the first
\* min(n, epoch_count) retained snapshots, and are untouched when nothing was
\* retained (stated for constructor arguments with epoch_count <= 2*patience,
\* where self.epoch_count is the argument itself).
C6_MeanOfFirstEpochCount ==
    (wa_pc = "ended" /\ n_weight_avg = epoch_count) =>
        IF weights = <<>>
        THEN model_weights = InitialWeights /\ n_averaged = 0
        ELSE /\ model_weights = MeanFirst(weights, Min(Len(weights), epoch_count))
             /\ n_averaged <= epoch_count

----------------------------------------------------------------------------
(* Properties of the fold loop *)

\* the evaluation of the current fold's models has been attempted
EvaluationAttempted == models # <<>> /\ fd_pc # "evaluate"

\* p is the element-wise mean of the predictions of ms
IsMeanOf(p, ms) == p # <<>> /\ p[1] * Len(ms) = SeqSum(ms) * p[2]

\* C7: for every number N >= 1 of models obtained for a fold, in every mode,
\* the predictions passed to the evaluator are the mean of the N models'
\* predictions.
C7_HandedPredictionsAreMean ==
    EvaluationAttempted => IsMeanOf(handed, models)

\* C10: in ensemble mode a fold in which at least one model loaded completes
\* its evaluation and appends its result; the run does not raise there.
C10_EnsembleFoldCompletes ==
    (args_ensemble /\ EvaluationAttempted) =>
        /\ fd_error = "none"
        /\ n_fold_results = fold

----------------------------------------------------------------------------
(* Properties of the vocabulary *)

TrainWordSet == SeqToSet(w_train)

\* C9: the vocabulary is a bijection between the training words W and
\* 0..|W|-1 that follows the order of the words, index2word is its inverse,
\* n_classes is |W|, and determining it again from the same words gives the
\* same mapping.
C9_VocabularyBijection ==
    n_indexed > 0 =>
        /\ DOMAIN word2index = TrainWordSet
        /\ {word2index[wd] : wd \in TrainWordSet}
              = 0..(Cardinality(TrainWordSet) - 1)
        /\ \A a, b \in TrainWordSet : StrLess(a, b) => word2index[a] < word2index[b]
        /\ DOMAIN index2word = 0..(Cardinality(TrainWordSet) - 1)
        /\ \A wd \in TrainWordSet : index2word[word2index[wd]] = wd
        /\ n_classes = Cardinality(TrainWordSet)
        /\ n_indexed > 1 => \A wd \in TrainWordSet : prev_word2index[wd] = word2index[wd]

C9_Witness ==
    /\ n_indexed = 2
    /\ Cardinality(TrainWordSet) = 3
    /\ StrLess(w_train[2], w_train[1])
    /\ Len(w_train[3]) > Len(w_train[1])
    /\ word2index[w_train[1]] = 2

----------------------------------------------------------------------------
(* Properties of the saved results *)

ScalarOf(f, metric) == fold_results[f][metric].scalar
RowsOf(f, metric) == fold_results[f][metric].rows

RECURSIVE RowsBefore(_, _)
RowsBefore(f, metric) ==
    IF f = 1 THEN 0 ELSE RowsBefore(f - 1, metric) + Len(RowsOf(f - 1, metric))

\* C8: for every metric of fold 0's result, avg_<metric> is the arithmetic
\* mean of the 5 folds' values when scalar (so it is the folds' value when
\* all 5 agree) and, when tabular, holds the rows of the 5 tables, all of them
\* and in the order of the folds.
C8_SummaryIsMeanOrConcat ==
    rs_pc = "saved" =>
        /\ DOMAIN summary = {AvgKey(metric) : metric \in DOMAIN fold_results[1]}
        /\ \A metric \in DOMAIN fold_results[1] :
              LET avg == summary[AvgKey(metric)]
              IN IF fold_results[1][metric].df
                 THEN /\ avg.df
                      /\ Len(avg.rows) = RowsBefore(NumFolds + 1, metric)
                      /\ \A f \in 1..NumFolds :
                            \A r \in 1..Len(RowsOf(f, metric)) :
                               avg.rows[RowsBefore(f, metric) + r] = RowsOf(f, metric)[r]
                 ELSE /\ ~avg.df
                      /\ avg.mean[2] > 0
                      /\ avg.mean[1] * NumFolds
                            = avg.mean[2] * (ScalarOf(1, metric) + ScalarOf(2, metric)
                                + ScalarOf(3, metric) + ScalarOf(4, metric)
                                + ScalarOf(5, metric))
                      /\ (\A f \in 1..NumFolds : ScalarOf(f, metric) = ScalarOf(1, metric))
                            => avg.mean = <<ScalarOf(1, metric), 1>>

C8_Witness ==
    /\ rs_pc = "saved"
    /\ Len(fold_results) = NumFolds
    /\ ScalarOf(1, "n_test") # ScalarOf(2, "n_test")
    /\ summary[AvgKey("n_test")].mean[2] = NumFolds
    /\ RowsOf(1, "test_topk_df") # RowsOf(5, "test_topk_df")
    /\ Len(summary[AvgKey("test_topk_df")].rows) >= 2

----------------------------------------------------------------------------
(* Properties of the observers of the training call *)

TrainMode == args_fine_epochs > 0 /\ ~args_ensemble

\* the train branch has been run at least once
TrainingAttempted == TrainMode /\ (fd_pc # "obtain" \/ fold > 0)

\* C11: in train mode model2.fit runs with exactly the observers that were
\* configured (the early stopper when patience > 0, the WeightAverager when
\* n_weight_avg > 0), and with patience = 0 it runs without a stopper instead
\* of failing.
C11_FitRunsConfiguredObservers ==
    TrainingAttempted =>
        /\ fd_error = "none"
        /\ fit_callbacks = callbacks

----------------------------------------------------------------------------
(* Properties of windows at the edge of a segment *)

\* the segment extract_signal_from_fold locates for a label
HasSegment(label, S) ==
    /\ NonzeroLess(S, BinIndex(label)) # {}
    /\ BinRankOf(label, S) + 1 <= Len(S) - 1
BinStart(label, S) == S[BinRankOf(label, S) + 1]
BinStop(label, S) == S[BinRankOf(label, S) + 2]

\* the window reaches exactly to an end of the label's segment, not beyond
TouchesSegmentEdge(label, S, lg, hw) ==
    /\ HasSegment(label, S)
    /\ BinStart(label, S) <= LeftEdge(label, lg, hw)
    /\ RightEdge(label, lg, hw) <= BinStop(label, S)
    /\ \/ LeftEdge(label, lg, hw) = BinStart(label, S)
       \/ RightEdge(label, lg, hw) = BinStop(label, S)

\* the window has a stitch boundary strictly inside it or leaves the signal
ReachesPastBoundary(label, S, lg, hw, rows) ==
    \/ LeftEdge(label, lg, hw) < 0
    \/ RightEdge(label, lg, hw) > rows
    \/ \E j \in 1..Len(S) :
          LeftEdge(label, lg, hw) < S[j] /\ S[j] < RightEdge(label, lg, hw)

====
